---- MODULE Spec2Model ----
(***************************************************************************)
(* Connection state machines of ios-pwa-display.                           *)
(*                                                                         *)
(* MessageClient (src/src/services/message-client.ts) is the bidirectional *)
(* WebSocket client.  The single-threaded event loop runs each handler to  *)
(* completion, so every handler is one action.  A WebSocket is modelled by *)
(* its readyState; the task that delivers its open (close) event sets the  *)
(* readyState to OPEN (CLOSED) and runs onopen (onclose) in the same step. *)
(* The client never detaches its handlers, so a transport it no longer     *)
(* references keeps calling back until its close event has been handled.   *)
(***************************************************************************)
EXTENDS Naturals, Integers, Sequences, FiniteSets, TLC

(* ------------------------------ bounds -------------------------------- *)
\* transports the client created, no longer references, and not yet closed
MaxOrphans == 2
\* retry timers armed with setTimeout and neither fired nor cleared
MaxTimers == 2
\* frames received on the two transports together
MaxFrames == 3
MaxReadings == 5
MaxRelayFrames == 2
MaxSseRetries == 3

(* ------------------------- program constants -------------------------- *)
maxReconnectAttempts == 20

\* the endpoint strings tried: empty, one the WebSocket constructor
\* accepts, one it rejects with a SyntaxError
Urls == {"", "ws://relay:8765", "relay:8765"}

LiveStates == {"CONNECTING", "OPEN", "CLOSING"}

VARIABLES
    ws,                 \* readyState of the transport this.ws refers to, or "null"
    orphans,            \* live transports the client created but no longer refers to
    reconnectAttempts,
    reconnectTimeoutId, \* "null", or the id of a timer that is "pending" or has "fired"
    timers,             \* number of pending retry timers of the client
    state,              \* _state
    wsUrl,              \* _wsUrl
    shouldConnect,
    visibilityState,    \* document.visibilityState
    retriesMade,        \* history: transports opened by retry timers since the last open event
    stopped,            \* history: disconnect() was called, and neither connect() nor the setter since
    last,               \* history: what the last handler did
    connectionHandlers, \* the handlers registered, in insertion order
    messageHandlers,
    \* SSEClient
    eventSource,        \* readyState of the EventSource this.eventSource refers to, or "null"
    sseUrl,             \* _sseUrl
    sseState,           \* _state
    sseShouldConnect,   \* shouldConnect
    sseReconnectTimeoutId, \* "null", or "pending": the id of the armed 5 s timer
    sseTimers,          \* the 5 s timers armed and neither fired nor cleared
    sseRetriesMade,     \* history: the reconnections the 5 s timer has started
    sseLast,            \* history: what the last handler did
    sseConnectionHandlers, \* connectionHandlers of the SSEClient
    readingHandlers,
    \* DisplayController
    currentMessage,     \* _state.currentMessage
    messageTimeoutId,   \* 0 for null, or the id setTimeout returned
    expiry,             \* the expiry timers armed and neither fired nor cleared
    currentPower,       \* _state.currentPower
    wsConnected,        \* _state.wsConnected
    sseConnected,       \* _state.sseConnected
    dispatched,         \* history: the messages handleMessage was called with
    shown,              \* history: the active messages state observers were told of
    dlast,              \* history: what the controller did in the last handler
    alertThresholdWatts,
    brightnessMode,     \* _state.brightnessMode
    initialized,        \* _state.initialized
    storage,            \* the item of localStorage under STORAGE_KEY
    screen,             \* what messageContent shows
    clients,            \* relay: the registry of sessions, in insertion order
    readyState,         \* relay: ws.readyState of each session
    handledEvents,      \* history: the events of each session the relay handled
    outbox,             \* history: what ws.send wrote to each session
    sentLog,            \* history: each call of broadcast, with the sessions registered and the sessions open
    inbound,            \* history: the client message or POST /send body of the last handler
    wrote,              \* history: the sessions the last handler wrote to
    response,           \* history: the HTTP response of the last handler
    received            \* history: the frames received, on either transport

wsVars == <<ws, orphans, reconnectAttempts, reconnectTimeoutId, timers, state,
            wsUrl, shouldConnect, retriesMade, stopped, last,
            connectionHandlers, messageHandlers>>

sseVars == <<eventSource, sseUrl, sseState, sseShouldConnect,
             sseReconnectTimeoutId, sseTimers, sseRetriesMade, sseLast,
             sseConnectionHandlers, readingHandlers>>

dispVars == <<currentMessage, messageTimeoutId, expiry, currentPower,
              wsConnected, sseConnected, dispatched, shown, dlast,
              alertThresholdWatts, brightnessMode, initialized, storage,
              screen>>

relayVars == <<clients, readyState, handledEvents, outbox, sentLog, inbound,
               wrote, response>>

vars == <<wsVars, sseVars, visibilityState, dispVars, received, relayVars>>

(* ------------------------------ helpers ------------------------------- *)
\* new WebSocket(url) throws for a url that does not parse as ws:/wss:
NewWebSocketThrows(u) == u = "relay:8765"

NoOrphans == [rs \in LiveStates |-> 0]

OrphanCount(o) == o["CONNECTING"] + o["OPEN"] + o["CLOSING"]

\* Math.pow(1.5, n) as the exact fraction 3^n / 2^n.  3^19 is the largest
\* power of 3 a 32-bit integer holds; 1.5^19 is far above the cap of the
\* backoff, so a larger exponent is computed as 19
Pow15(n) ==
    LET k == IF n > 19 THEN 19 ELSE n
    IN  [num |-> 3 ^ k, den |-> 2 ^ k]

\* the backoff capped at 3000 ms in place of 30000 ms
Delay_Cap3000(n) ==
    LET p == Pow15(n)
    IN  IF p.num <= 3 * p.den
        THEN [num |-> 1000 * p.num, den |-> p.den]
        ELSE [num |-> 3000, den |-> 1]

\* Math.min(1000 * Math.pow(1.5, n), 30000) as an exact fraction of a
\* millisecond; 1000 * 1.5^n <= 30000 iff 3^n <= 30 * 2^n
Delay(n) ==
    LET p == Pow15(n)
    IN  IF p.num <= 30 * p.den
        THEN [num |-> 1000 * p.num, den |-> p.den]
        ELSE [num |-> 30000, den |-> 1]

\* the effects a handler has had so far, kept beside the fields it works on
NoEffects == [delivered |-> <<>>, created |-> 0, threw |-> FALSE,
              scheduled |-> <<>>, sent |-> <<>>, calls |-> <<>>,
              received |-> <<>>]

Cur == [ws |-> ws, orphans |-> orphans,
        reconnectAttempts |-> reconnectAttempts,
        reconnectTimeoutId |-> reconnectTimeoutId, timers |-> timers,
        state |-> state, wsUrl |-> wsUrl, shouldConnect |-> shouldConnect,
        connectionHandlers |-> connectionHandlers,
        messageHandlers |-> messageHandlers,
        fx |-> NoEffects]

\* the message handler of the DisplayController throws a TypeError when it
\* reads message.type of null; no other handler throws
HandlerThrows(h, ev, arg) ==
    h = "controller" /\ ev = "message" /\ arg.kind = "null"

\* the handlers called from the last registered to the first
forEach_Reversed(handlers, ev, arg, calls) ==
    calls \o [i \in 1..Len(handlers) |->
                [h |-> handlers[Len(handlers) + 1 - i], ev |-> ev,
                 arg |-> arg]]

\* handlers.forEach(h => h(arg)) for the event ev: a Set iterates in
\* insertion order, and a handler that throws ends the iteration; every
\* call is appended to the calls the running handler has made
forEach(handlers, ev, arg, calls) ==
    LET throwing == {i \in 1..Len(handlers) : HandlerThrows(handlers[i], ev, arg)}
        n == IF throwing = {} THEN Len(handlers)
             ELSE CHOOSE i \in throwing : \A j \in throwing : i <= j
    IN  calls \o [i \in 1..n |-> [h |-> handlers[i], ev |-> ev, arg |-> arg]]

\* Set.add: a handler already in the set keeps its place
SetAdd(handlers, h) ==
    IF \E i \in 1..Len(handlers) : handlers[i] = h
    THEN handlers ELSE Append(handlers, h)

\* Set.delete
SetDelete(handlers, h) == SelectSeq(handlers, LAMBDA x : x # h)

(* ------------------------- MessageClient methods ---------------------- *)
setState(c, s) ==
    IF c.state # s
    THEN [c EXCEPT !.state = s,
                   !.fx.delivered = Append(@, s),
                   !.fx.calls = forEach(c.connectionHandlers, "connection", s, @)]
    ELSE c

\* the cap compared with > in place of >=
scheduleReconnect_OffByOne(c) ==
    IF ~c.shouldConnect THEN c
    ELSE IF c.reconnectAttempts > maxReconnectAttempts THEN c
    ELSE [c EXCEPT !.reconnectTimeoutId = "pending",
                   !.timers = @ + 1,
                   !.fx.scheduled = Append(@, [n |-> c.reconnectAttempts,
                                               delay |-> Delay(c.reconnectAttempts)])]

scheduleReconnect(c) ==
    IF ~c.shouldConnect THEN c
    ELSE IF c.reconnectAttempts >= maxReconnectAttempts THEN c
    ELSE [c EXCEPT !.reconnectTimeoutId = "pending",
                   !.timers = @ + 1,
                   !.fx.scheduled = Append(@, [n |-> c.reconnectAttempts,
                                               delay |-> Delay(c.reconnectAttempts)])]

send(c, data) ==
    IF c.ws = "OPEN" THEN [c EXCEPT !.fx.sent = Append(@, data)] ELSE c

connect(c) ==
    IF c.wsUrl = "" THEN c
    ELSE LET c1 == [c EXCEPT !.shouldConnect = TRUE] IN
         IF c1.ws = "OPEN" THEN c1
         ELSE LET c2 == setState(c1, "connecting") IN
              IF NewWebSocketThrows(c2.wsUrl)
              THEN scheduleReconnect(
                       setState([c2 EXCEPT !.fx.threw = TRUE], "disconnected"))
              ELSE [c2 EXCEPT
                      !.orphans = IF c2.ws \in LiveStates
                                  THEN [@ EXCEPT ![c2.ws] = @ + 1] ELSE @,
                      !.ws = "CONNECTING",
                      !.fx.created = @ + 1]

\* stop() that also starts the retry budget afresh
disconnect_Reset(c) ==
    LET c1 == [c EXCEPT !.shouldConnect = FALSE, !.reconnectAttempts = 0]
        c2 == IF c1.reconnectTimeoutId # "null"
              THEN [c1 EXCEPT
                      !.timers = IF c1.reconnectTimeoutId = "pending"
                                 THEN @ - 1 ELSE @,
                      !.reconnectTimeoutId = "null"]
              ELSE c1
        c3 == IF c2.ws # "null"
              THEN [c2 EXCEPT
                      !.orphans = IF c2.ws \in {"CONNECTING", "OPEN"}
                                  THEN [@ EXCEPT !["CLOSING"] = @ + 1] ELSE @,
                      !.ws = "null"]
              ELSE c2
    IN  setState(c3, "disconnected")

disconnect(c) ==
    LET c1 == [c EXCEPT !.shouldConnect = FALSE]
        c2 == IF c1.reconnectTimeoutId # "null"
              THEN [c1 EXCEPT
                      !.timers = IF c1.reconnectTimeoutId = "pending"
                                 THEN @ - 1 ELSE @,
                      !.reconnectTimeoutId = "null"]
              ELSE c1
        c3 == IF c2.ws # "null"
              THEN [c2 EXCEPT
                      !.orphans = IF c2.ws \in {"CONNECTING", "OPEN"}
                                  THEN [@ EXCEPT !["CLOSING"] = @ + 1] ELSE @,
                      !.ws = "null"]
              ELSE c2
    IN  setState(c3, "disconnected")

setWsUrl(c, url) ==
    LET wasConnected == c.shouldConnect
        c1 == [disconnect(c) EXCEPT !.wsUrl = url]
    IN  IF wasConnected THEN connect(c1) ELSE c1

onopen(c) ==
    send(setState([c EXCEPT !.reconnectAttempts = 0], "connected"), "hello")

\* the close handler without its call of scheduleReconnect
onclose_NoRetry(c) == setState(c, "disconnected")

onclose(c) ==
    LET c1 == setState(c, "disconnected")
    IN  IF c1.shouldConnect THEN scheduleReconnect(c1) ELSE c1

timerCallback(c) ==
    connect([c EXCEPT !.reconnectAttempts = @ + 1])

onVisibilityChange(c, vis) ==
    IF vis = "visible" /\ c.shouldConnect
    THEN IF c.state = "disconnected" THEN connect(c) ELSE c
    ELSE c

\* the inbound frames tried on the WebSocket: one that is not JSON, JSON
\* that is not an object, and messages of each type with a duration that is
\* positive, zero or absent
Frames ==
    {"{\"type\":\"text\",\"cont",
     "null",
     "7",
     "{\"type\":\"text\",\"content\":\"A\",\"duration\":1000}",
     "{\"type\":\"text\",\"content\":\"B\",\"duration\":500}",
     "{\"type\":\"alert\",\"title\":\"C\",\"sound\":\"alert\"}",
     "{\"type\":\"image\",\"imageUrl\":\"D\",\"duration\":0}",
     "{\"type\":\"clear\"}",
     "{\"type\":\"config\"}"}

\* the inbound frames tried on the event stream
SseFrames ==
    {"{\"type\":\"power.rea",
     "null",
     "{\"type\":\"ping\"}",
     "{\"type\":\"power.reading\",\"watts\":1500}",
     "{\"type\":\"power.reading\",\"watts\":2500}"}

\* a property the JSON text does not give reads as undefined
Undefined == -1

\* a parsed value: null, a number, or an object with the properties read
Value(kind, type, content, duration, sound, watts) ==
    [kind |-> kind, type |-> type, content |-> content,
     duration |-> duration, sound |-> sound, watts |-> watts, ref |-> 0]

\* JSON.parse(data): the value, or the SyntaxError thrown
JSONparse(data) ==
    CASE data = "null" ->
           [ok |-> TRUE,
            value |-> Value("null", "undefined", "", Undefined, "undefined", Undefined)]
      [] data = "false" ->
           [ok |-> TRUE,
            value |-> Value("false", "undefined", "", Undefined, "undefined", Undefined)]
      [] data = "7" ->
           [ok |-> TRUE,
            value |-> Value("number", "undefined", "", Undefined, "undefined", Undefined)]
      [] data = "{\"type\":\"text\",\"content\":\"A\",\"duration\":1000}" ->
           [ok |-> TRUE,
            value |-> Value("object", "text", "A", 1000, "undefined", Undefined)]
      [] data = "{\"type\":\"text\",\"content\":\"B\",\"duration\":500}" ->
           [ok |-> TRUE,
            value |-> Value("object", "text", "B", 500, "undefined", Undefined)]
      [] data = "{\"type\":\"alert\",\"title\":\"C\",\"sound\":\"alert\"}" ->
           [ok |-> TRUE,
            value |-> Value("object", "alert", "C", Undefined, "alert", Undefined)]
      [] data = "{\"type\":\"image\",\"imageUrl\":\"D\",\"duration\":0}" ->
           [ok |-> TRUE,
            value |-> Value("object", "image", "D", 0, "undefined", Undefined)]
      [] data = "{\"type\":\"clear\"}" ->
           [ok |-> TRUE,
            value |-> Value("object", "clear", "", Undefined, "undefined", Undefined)]
      [] data = "{ \"type\" : \"clear\" }" ->
           [ok |-> TRUE,
            value |-> Value("object", "clear", "", Undefined, "undefined", Undefined)]
      [] data = "{\"type\":\"hello\",\"client\":\"ios-pwa-display\"}" ->
           [ok |-> TRUE,
            value |-> Value("object", "hello", "", Undefined, "undefined", Undefined)]
      [] data = "{\"type\":\"status\"}" ->
           [ok |-> TRUE,
            value |-> Value("object", "status", "", Undefined, "undefined", Undefined)]
      [] data = "{\"type\":\"config\"}" ->
           [ok |-> TRUE,
            value |-> Value("object", "config", "", Undefined, "undefined", Undefined)]
      [] data = "{\"type\":\"ping\"}" ->
           [ok |-> TRUE,
            value |-> Value("object", "ping", "", Undefined, "undefined", Undefined)]
      [] data = "{\"type\":\"power.reading\",\"watts\":1500}" ->
           [ok |-> TRUE,
            value |-> Value("object", "power.reading", "", Undefined, "undefined", 1500)]
      [] data = "{\"type\":\"power.reading\",\"watts\":2500}" ->
           [ok |-> TRUE,
            value |-> Value("object", "power.reading", "", Undefined, "undefined", 2500)]
      [] data = "{\"type\":\"power.reading\",\"watts\":1800}" ->
           [ok |-> TRUE,
            value |-> Value("object", "power.reading", "", Undefined, "undefined", 1800)]
      [] data = "{\"type\":\"power.reading\",\"watts\":2000}" ->
           [ok |-> TRUE,
            value |-> Value("object", "power.reading", "", Undefined, "undefined", 2000)]
      [] data = "{\"type\":\"power.reading\",\"watts\":2100}" ->
           [ok |-> TRUE,
            value |-> Value("object", "power.reading", "", Undefined, "undefined", 2100)]
      [] data = "{\"type\":\"power.reading\",\"watts\":2600}" ->
           [ok |-> TRUE,
            value |-> Value("object", "power.reading", "", Undefined, "undefined", 2600)]
      [] OTHER ->
           [ok |-> FALSE,
            value |-> Value("SyntaxError", "undefined", "", Undefined, "undefined", Undefined)]

\* onMessage(handler); the function it returns is offMessage
onMessage(c, h) == [c EXCEPT !.messageHandlers = SetAdd(@, h)]

offMessage(c, h) == [c EXCEPT !.messageHandlers = SetDelete(@, h)]

\* onConnectionChange(handler); the function it returns is
\* offConnectionChange
onConnectionChange(c, h) ==
    [c EXCEPT !.connectionHandlers = SetAdd(@, h),
              !.fx.calls = Append(@, [h |-> h, ev |-> "connection",
                                      arg |-> c.state])]

offConnectionChange(c, h) == [c EXCEPT !.connectionHandlers = SetDelete(@, h)]

\* the handlers run a second time for every message
onmessage_Twice(c, data, ref) ==
    LET parsed == JSONparse(data)
        message == [parsed.value EXCEPT !.ref = ref]
        c1 == [c EXCEPT !.fx.received = Append(@, data)]
    IN  IF parsed.ok
        THEN [c1 EXCEPT !.fx.calls =
                forEach(c.messageHandlers, "message", message,
                        forEach(c.messageHandlers, "message", message, @))]
        ELSE c1

\* ws.onmessage for the frame event.data; ref is the identity of the object
\* JSON.parse creates
onmessage(c, data, ref) ==
    LET parsed == JSONparse(data)
        message == [parsed.value EXCEPT !.ref = ref]
        c1 == [c EXCEPT !.fx.received = Append(@, data)]
    IN  IF parsed.ok
        THEN [c1 EXCEPT !.fx.calls = forEach(c.messageHandlers, "message",
                                             message, @)]
        ELSE c1

(* --------------------------- SSEClient methods ------------------------ *)
\* new EventSource(url) throws for a url that cannot be resolved
NewEventSourceThrows(u) == u = "http://"

SseUrls == {"", "http://remo-e:8080/events", "http://"}

NoSseEffects == [delivered |-> <<>>, created |-> 0, threw |-> FALSE,
                 closed |-> 0, scheduled |-> <<>>, calls |-> <<>>,
                 received |-> <<>>]

SseCur == [eventSource |-> eventSource, sseUrl |-> sseUrl,
           state |-> sseState, shouldConnect |-> sseShouldConnect,
           reconnectTimeoutId |-> sseReconnectTimeoutId,
           timers |-> sseTimers,
           connectionHandlers |-> sseConnectionHandlers,
           readingHandlers |-> readingHandlers,
           fx |-> NoSseEffects]

sseSetState(c, s) ==
    IF c.state # s
    THEN [c EXCEPT !.state = s,
                   !.fx.delivered = Append(@, s),
                   !.fx.calls = forEach(c.connectionHandlers, "sseConnection", s, @)]
    ELSE c

\* a timer is armed whether or not one is pending
sseScheduleReconnect_Again(c) ==
    IF ~c.shouldConnect THEN c
    ELSE [c EXCEPT !.reconnectTimeoutId = "pending",
                   !.timers = @ + 1,
                   !.fx.scheduled = Append(@, 5000)]

\* the callback of the 5 s timer is sseTimerCallback
sseScheduleReconnect(c) ==
    IF ~c.shouldConnect THEN c
    ELSE IF c.reconnectTimeoutId # "null" THEN c
    ELSE [c EXCEPT !.reconnectTimeoutId = "pending",
                   !.timers = @ + 1,
                   !.fx.scheduled = Append(@, 5000)]

\* eventSource.close(): the fetch is aborted and no further event is delivered
sseClose(c) ==
    [c EXCEPT !.eventSource = "CLOSED",
              !.fx.closed = IF c.eventSource \in {"CONNECTING", "OPEN"}
                            THEN @ + 1 ELSE @]

sseConnect(c) ==
    IF c.sseUrl = "" THEN c
    ELSE LET c1 == [c EXCEPT !.shouldConnect = TRUE] IN
         IF c1.eventSource = "OPEN" THEN c1
         ELSE LET c2 == IF c1.eventSource # "null" THEN sseClose(c1) ELSE c1
                  c3 == sseSetState(c2, "connecting")
              IN  IF NewEventSourceThrows(c3.sseUrl)
                  THEN sseScheduleReconnect(
                           sseSetState([c3 EXCEPT !.fx.threw = TRUE],
                                       "disconnected"))
                  ELSE [c3 EXCEPT !.eventSource = "CONNECTING",
                                  !.fx.created = @ + 1]

sseDisconnect(c) ==
    LET c1 == [c EXCEPT !.shouldConnect = FALSE]
        c2 == IF c1.reconnectTimeoutId # "null"
              THEN [c1 EXCEPT !.reconnectTimeoutId = "null",
                              !.timers = @ - 1]
              ELSE c1
        c3 == IF c2.eventSource # "null"
              THEN [sseClose(c2) EXCEPT !.eventSource = "null"]
              ELSE c2
    IN  sseSetState(c3, "disconnected")

setSseUrl(c, url) ==
    LET wasConnected == c.shouldConnect
        c1 == [sseDisconnect(c) EXCEPT !.sseUrl = url]
    IN  IF wasConnected THEN sseConnect(c1) ELSE c1

sseOnOpen(c) == sseSetState(c, "connected")

sseOnError(c) ==
    LET c1 == sseSetState(c, "disconnected")
    IN  IF c1.eventSource = "CLOSED" THEN sseScheduleReconnect(c1) ELSE c1

sseTimerCallback(c) ==
    LET c1 == [c EXCEPT !.reconnectTimeoutId = "null", !.timers = @ - 1]
    IN  IF c1.shouldConnect /\ c1.state = "disconnected"
        THEN sseConnect(c1) ELSE c1

sseOnVisibilityChange(c, vis) ==
    IF vis = "visible" /\ c.shouldConnect
    THEN IF c.state = "disconnected" THEN sseConnect(c) ELSE c
    ELSE c

\* onPowerReading(handler); the function it returns is offPowerReading
onPowerReading(c, h) == [c EXCEPT !.readingHandlers = SetAdd(@, h)]

offPowerReading(c, h) == [c EXCEPT !.readingHandlers = SetDelete(@, h)]

\* onConnectionChange(handler); the function it returns is
\* sseOffConnectionChange
sseOnConnectionChange(c, h) ==
    [c EXCEPT !.connectionHandlers = SetAdd(@, h),
              !.fx.calls = Append(@, [h |-> h, ev |-> "sseConnection",
                                      arg |-> c.state])]

sseOffConnectionChange(c, h) ==
    [c EXCEPT !.connectionHandlers = SetDelete(@, h)]

\* the handler without its try/catch: what did not parse is handed on
sseOnMessage_Unchecked(c, data, ref) ==
    LET event == [JSONparse(data).value EXCEPT !.ref = ref]
    IN  [c EXCEPT !.fx.received = Append(@, data),
                  !.fx.calls = forEach(c.readingHandlers, "reading", event, @)]

\* eventSource.onmessage for the frame event.data: reading data.type of
\* null throws a TypeError, which the handler catches like the SyntaxError
sseOnMessage(c, data, ref) ==
    LET parsed == JSONparse(data)
        event == [parsed.value EXCEPT !.ref = ref]
        c1 == [c EXCEPT !.fx.received = Append(@, data)]
    IN  IF parsed.ok /\ event.kind # "null" /\ event.type = "power.reading"
        THEN [c1 EXCEPT !.fx.calls = forEach(c.readingHandlers, "reading",
                                             event, @)]
        ELSE c1

(* ------------------------ DisplayController methods ------------------- *)
DEFAULT_ALERT_THRESHOLD == 2000

\* null, as the value of currentMessage and of currentPower
Null == Value("null", "undefined", "", Undefined, "undefined", Undefined)

NoDispEffects == [handled |-> <<>>, notified |-> <<>>, sounds |-> <<>>,
                  cleared |-> {}, armed |-> <<>>, threw |-> FALSE]

\* an item of localStorage as JSON.parse reads it: absent, text that is not
\* JSON, null, or an object with the properties in has
Item(kind, has, w, s, b, a) ==
    [kind |-> kind, has |-> has, wsUrl |-> w, sseUrl |-> s,
     brightnessMode |-> b, alertThresholdWatts |-> a]

NoItem == Item("absent", {}, "", "", "", 0)

\* the record saveConfig writes for the endpoints of the model
UrlsItem ==
    Item("object",
         {"wsUrl", "sseUrl", "brightnessMode", "alertThresholdWatts"},
         "ws://relay:8765", "http://remo-e:8080/events", "auto", 2000)

\* the items tried: none, corrupt text, null, an empty object, records with
\* some properties missing, and complete records
StoredItems ==
    {NoItem,
     Item("corrupt", {}, "", "", "", 0),
     Item("null", {}, "", "", "", 0),
     Item("object", {}, "", "", "", 0),
     Item("object", {"wsUrl"}, "ws://relay:8765", "", "", 0),
     Item("object", {"sseUrl", "alertThresholdWatts"}, "",
          "http://remo-e:8080/events", "", 1800),
     Item("object", {"wsUrl", "sseUrl", "brightnessMode"},
          "ws://relay:8765", "http://remo-e:8080/events", "dark", 0),
     UrlsItem}

DefaultConfig ==
    [wsUrl |-> "", sseUrl |-> "", brightnessMode |-> "auto",
     alertThresholdWatts |-> DEFAULT_ALERT_THRESHOLD]

\* properties missing from the record are not defaulted
loadConfig_Strict(saved) ==
    IF saved.kind # "object" THEN DefaultConfig
    ELSE [wsUrl |-> saved.wsUrl, sseUrl |-> saved.sseUrl,
          brightnessMode |-> saved.brightnessMode,
          alertThresholdWatts |-> saved.alertThresholdWatts]

\* loadConfig() for the item saved: JSON.parse throws for corrupt text and
\* reading a property of null throws, and both are caught; x || d is d
\* when the property is missing, empty or 0
loadConfig(saved) ==
    IF saved.kind # "object" THEN DefaultConfig
    ELSE [wsUrl |->
            IF "wsUrl" \in saved.has /\ saved.wsUrl # ""
            THEN saved.wsUrl ELSE "",
          sseUrl |->
            IF "sseUrl" \in saved.has /\ saved.sseUrl # ""
            THEN saved.sseUrl ELSE "",
          brightnessMode |->
            IF "brightnessMode" \in saved.has /\ saved.brightnessMode # ""
            THEN saved.brightnessMode ELSE "auto",
          alertThresholdWatts |->
            IF "alertThresholdWatts" \in saved.has
               /\ saved.alertThresholdWatts # 0
            THEN saved.alertThresholdWatts ELSE DEFAULT_ALERT_THRESHOLD]

Disp == [currentMessage |-> currentMessage,
         messageTimeoutId |-> messageTimeoutId,
         expiry |-> expiry,
         currentPower |-> currentPower,
         wsConnected |-> wsConnected,
         sseConnected |-> sseConnected,
         dispatched |-> dispatched,
         shown |-> shown,
         alertThresholdWatts |-> alertThresholdWatts,
         brightnessMode |-> brightnessMode,
         initialized |-> initialized,
         storage |-> storage,
         screen |-> screen,
         fx |-> NoDispEffects]

\* soundManager.play(name)
play(d, name) == [d EXCEPT !.fx.sounds = Append(@, name)]

\* if (x): null and false are falsy, objects and the number 7 are not
Truthy(x) == x.kind \notin {"null", "false"}

\* the power reading is shown only while no message is active
render_MessageFirst(power, message) ==
    IF Truthy(message) THEN [shows |-> "message", ref |-> message.ref]
    ELSE IF Truthy(power) THEN [shows |-> "power", ref |-> power.ref]
    ELSE [shows |-> "empty", ref |-> 0]

\* the state handler of main.ts on state.currentPower and
\* state.currentMessage: what messageContent shows afterwards
render(power, message) ==
    IF Truthy(power) THEN [shows |-> "power", ref |-> power.ref]
    ELSE IF Truthy(message) THEN [shows |-> "message", ref |-> message.ref]
    ELSE [shows |-> "empty", ref |-> 0]

\* the state observers are not told
notifyStateChange_Silent(d) == d

\* notifyStateChange(): the state observers are handed a copy of _state
notifyStateChange(d) ==
    [d EXCEPT !.fx.notified = Append(@, [message |-> d.currentMessage,
                                         power |-> d.currentPower,
                                         wsConnected |-> d.wsConnected,
                                         sseConnected |-> d.sseConnected]),
              !.screen = render(d.currentPower, d.currentMessage),
              !.shown = IF d.shown[Len(d.shown)].ref = d.currentMessage.ref
                        THEN @
                        ELSE Append(@, [content |-> d.currentMessage.content,
                                        ref |-> d.currentMessage.ref])]

\* the handlers the constructor registers for the connection states
wsConnectionChanged(d, st) ==
    notifyStateChange([d EXCEPT !.wsConnected = st,
                                !.fx.handled = Append(@, "connection")])

sseConnectionChanged(d, st) ==
    notifyStateChange([d EXCEPT !.sseConnected = st,
                                !.fx.handled = Append(@, "sseConnection")])

\* the alert sound for every reading at or above the threshold
handlePowerReading_EveryTime(d, event) ==
    LET d1 == [d EXCEPT !.currentPower = event,
                        !.fx.handled = Append(@, "reading")]
        d2 == IF event.watts >= d.alertThresholdWatts
              THEN play(d1, "alert") ELSE d1
    IN  notifyStateChange(d2)

handlePowerReading(d, event) ==
    LET previousPower == d.currentPower
        d1 == [d EXCEPT !.currentPower = event,
                        !.fx.handled = Append(@, "reading")]
        d2 == IF event.watts >= d.alertThresholdWatts
                 /\ (previousPower = Null
                       \/ previousPower.watts < d.alertThresholdWatts)
              THEN play(d1, "alert") ELSE d1
    IN  notifyStateChange(d2)

\* the callback of the expiry timer armed for message
expiryCallback(d, message) ==
    LET d1 == [d EXCEPT !.fx.handled = Append(@, "expiry")]
    IN  IF d1.currentMessage.ref = message.ref
        THEN notifyStateChange([d1 EXCEPT !.currentMessage = Null])
        ELSE d1

\* the handler without its clearTimeout
handleMessage_KeepTimer(d, message) ==
    LET d1 == [d EXCEPT !.dispatched = Append(@, message),
                        !.fx.handled = Append(@, "message")]
    IN  IF message.kind = "null" THEN [d1 EXCEPT !.fx.threw = TRUE]
        ELSE IF message.type = "clear"
        THEN notifyStateChange([d1 EXCEPT !.currentMessage = Null])
        ELSE IF message.type = "config" THEN d1
        ELSE LET d2 == [d1 EXCEPT !.currentMessage = message]
                 d3 == IF message.sound \notin {"undefined", "none"}
                       THEN play(d2, message.sound) ELSE d2
                 d4 == IF message.duration # Undefined /\ message.duration > 0
                       THEN LET t == [id |-> message.ref,
                                      message |-> message,
                                      delay |-> message.duration]
                            IN  [d3 EXCEPT !.messageTimeoutId = t.id,
                                           !.expiry = @ \cup {t},
                                           !.fx.armed = Append(@, t)]
                       ELSE d3
             IN  notifyStateChange(d4)

\* the pending timer is cleared before the type of the message is read
handleMessage(d, message) ==
    LET d0 == [d EXCEPT !.dispatched = Append(@, message),
                        !.fx.handled = Append(@, "message")]
        d1 == IF d0.messageTimeoutId # 0
              THEN [d0 EXCEPT
                      !.expiry = {t \in @ : t.id # d0.messageTimeoutId},
                      !.fx.cleared = {t \in d0.expiry :
                                        t.id = d0.messageTimeoutId},
                      !.messageTimeoutId = 0]
              ELSE d0
    IN  IF message.kind = "null" THEN [d1 EXCEPT !.fx.threw = TRUE]
        ELSE IF message.type = "clear"
        THEN notifyStateChange([d1 EXCEPT !.currentMessage = Null])
        ELSE IF message.type = "config" THEN d1
        ELSE LET d2 == [d1 EXCEPT !.currentMessage = message]
                 d3 == IF message.sound \notin {"undefined", "none"}
                       THEN play(d2, message.sound) ELSE d2
                 d4 == IF message.duration # Undefined /\ message.duration > 0
                       THEN LET t == [id |-> message.ref,
                                      message |-> message,
                                      delay |-> message.duration]
                            IN  [d3 EXCEPT !.messageTimeoutId = t.id,
                                           !.expiry = @ \cup {t},
                                           !.fx.armed = Append(@, t)]
                       ELSE d3
             IN  notifyStateChange(d4)

\* saveConfig(): the record written to localStorage
saveConfig(d, w, s) ==
    [d EXCEPT !.storage =
        Item("object",
             {"wsUrl", "sseUrl", "brightnessMode", "alertThresholdWatts"},
             w, s, d.brightnessMode, d.alertThresholdWatts)]

\* a new configuration discards the reading shown
updateConfig_ClearsPower(d, config, w, s) ==
    notifyStateChange(saveConfig([d EXCEPT !.currentPower = Null], w, s))

\* the part of updateConfig(config) on the fields of the controller, after
\* the endpoints w and s of the two clients are set
updateConfig(d, config, w, s) ==
    LET d1 == IF "brightnessMode" \in config.has
              THEN [d EXCEPT !.brightnessMode = config.brightnessMode]
              ELSE d
        d2 == IF "alertThresholdWatts" \in config.has
              THEN [d1 EXCEPT !.alertThresholdWatts =
                                  config.alertThresholdWatts]
              ELSE d1
    IN  notifyStateChange(saveConfig(d2, w, s))

\* the calls the clients made of the handlers of the controller, in order
RECURSIVE Deliver(_, _)
Deliver(d, calls) ==
    IF calls = <<>> THEN d
    ELSE LET call == Head(calls)
             d1 == IF call.h # "controller" THEN d
                   ELSE CASE call.ev = "connection" ->
                               wsConnectionChanged(d, call.arg)
                          [] call.ev = "sseConnection" ->
                               sseConnectionChanged(d, call.arg)
                          [] call.ev = "message" ->
                               handleMessage(d, call.arg)
                          [] call.ev = "reading" ->
                               handlePowerReading(d, call.arg)
         IN  Deliver(d1, Tail(calls))

(* ------------------------------ relay server ---------------------------- *)
Sessions == {"s1", "s2", "s3"}

NoResponse == [status |-> 0, ok |-> FALSE, clients |-> 0, error |-> ""]

NoInbound == [from |-> "none", data |-> ""]

\* the relay when a handler starts
Relay == [clients |-> clients,
          readyState |-> readyState,
          outbox |-> outbox,
          sentLog |-> sentLog,
          wrote |-> {},
          response |-> NoResponse]

\* the sessions in the registry, and the sessions whose transport is open
Registry(r) == {r.clients[i] : i \in 1..Len(r.clients)}

OpenSessions(r) == {s \in Sessions : r.readyState[s] = "OPEN"}

\* the texts JSON.stringify gives for the values tried: no white space
CanonicalTexts ==
    {data \in Frames \cup {"false",
                           "{\"type\":\"hello\",\"client\":\"ios-pwa-display\"}",
                           "{\"type\":\"status\"}"} : JSONparse(data).ok}

\* JSON.stringify(value)
JSONstringify(value) ==
    CHOOSE data \in CanonicalTexts : JSONparse(data).value = value

\* every registered session is written to, whatever its state
broadcast_All(r, message) ==
    LET data == JSONstringify(message)
        to == Registry(r)
    IN  [r EXCEPT !.outbox = [s \in Sessions |->
                                IF s \in to THEN Append(@[s], data)
                                ELSE @[s]],
                  !.wrote = @ \cup to,
                  !.sentLog = Append(@, [data |-> data,
                                         registered |-> Registry(r),
                                         open |-> OpenSessions(r)])]

\* broadcast(message): serialized once, sent to the sessions of the
\* registry that are open
broadcast(r, message) ==
    LET data == JSONstringify(message)
        to == {r.clients[i] : i \in
                 {j \in 1..Len(r.clients) :
                    r.readyState[r.clients[j]] = "OPEN"}}
    IN  [r EXCEPT !.outbox = [s \in Sessions |->
                                IF s \in to THEN Append(@[s], data)
                                ELSE @[s]],
                  !.wrote = @ \cup to,
                  !.sentLog = Append(@, [data |-> data,
                                         registered |-> Registry(r),
                                         open |-> OpenSessions(r)])]

\* wss.on('connection')
relayOnConnection(r, sock) == [r EXCEPT !.clients = SetAdd(@, sock)]

\* ws.on('message'): a SyntaxError of JSON.parse and the TypeError of
\* reading the type of null are caught
relayOnMessage(r, sock, data) ==
    LET parsed == JSONparse(data)
        message == parsed.value
    IN  IF ~parsed.ok \/ message.kind = "null" THEN r
        ELSE IF message.type = "hello" \/ message.type = "status" THEN r
        ELSE broadcast(r, message)

\* ws.on('close')
relayOnClose(r, sock) == [r EXCEPT !.clients = SetDelete(@, sock)]

\* the session stays in the registry after an error
relayOnError_Keep(r, sock) == r

\* ws.on('error')
relayOnError(r, sock) == [r EXCEPT !.clients = SetDelete(@, sock)]

\* the response counts the open sessions
postSend_CountOpen(r, body) ==
    LET parsed == JSONparse(body)
        r1 == broadcast(r, parsed.value)
    IN  IF parsed.ok
        THEN [r1 EXCEPT !.response =
                [status |-> 200, ok |-> TRUE,
                 clients |-> Cardinality({s \in Sessions :
                                            /\ r1.readyState[s] = "OPEN"
                                            /\ \E i \in 1..Len(r1.clients) :
                                                  r1.clients[i] = s}),
                 error |-> ""]]
        ELSE [r EXCEPT !.response =
                [status |-> 400, ok |-> FALSE, clients |-> 0,
                 error |-> "Invalid JSON"]]

\* POST /send, when the body has arrived
postSend(r, body) ==
    LET parsed == JSONparse(body)
        r1 == broadcast(r, parsed.value)
    IN  IF parsed.ok
        THEN [r1 EXCEPT !.response =
                [status |-> 200, ok |-> TRUE, clients |-> Len(r1.clients),
                 error |-> ""]]
        ELSE [r EXCEPT !.response =
                [status |-> 400, ok |-> FALSE, clients |-> 0,
                 error |-> "Invalid JSON"]]

(* ------------------------------ actions ------------------------------- *)
\* what the handlers of the controller have made of its state becomes the
\* next state; dlast keeps the last handler in which the controller ran
DispCommit(d, op) ==
    /\ currentMessage' = d.currentMessage
    /\ messageTimeoutId' = d.messageTimeoutId
    /\ expiry' = d.expiry
    /\ currentPower' = d.currentPower
    /\ wsConnected' = d.wsConnected
    /\ sseConnected' = d.sseConnected
    /\ dispatched' = d.dispatched
    /\ shown' = d.shown
    /\ alertThresholdWatts' = d.alertThresholdWatts
    /\ brightnessMode' = d.brightnessMode
    /\ initialized' = d.initialized
    /\ storage' = d.storage
    /\ screen' = d.screen
    /\ dlast' = IF d.fx = NoDispEffects THEN dlast
                ELSE [op |-> op, fx |-> d.fx]
    /\ UNCHANGED relayVars

\* the frames a handler has received, appended to the history
Received(src, frames) ==
    received \o [i \in 1..Len(frames) |-> [src |-> src, data |-> frames[i]]]

\* the fields of the MessageClient after a handler, within the bounds
WsAssign(c, op, target, retries) ==
    /\ OrphanCount(c.orphans) <= MaxOrphans
    /\ c.timers <= MaxTimers
    /\ ws' = c.ws
    /\ orphans' = c.orphans
    /\ reconnectAttempts' = c.reconnectAttempts
    /\ reconnectTimeoutId' = c.reconnectTimeoutId
    /\ timers' = c.timers
    /\ state' = c.state
    /\ wsUrl' = c.wsUrl
    /\ shouldConnect' = c.shouldConnect
    /\ connectionHandlers' = c.connectionHandlers
    /\ messageHandlers' = c.messageHandlers
    /\ retriesMade' = retries
    /\ last' = [op |-> op, target |-> target, fx |-> c.fx]

\* the result of a handler becomes the next state, within the bounds
Commit(c, op, target, retries) ==
    /\ UNCHANGED sseVars
    /\ DispCommit(Deliver(Disp, c.fx.calls), op)
    /\ received' = Received("ws", c.fx.received)
    /\ WsAssign(c, op, target, retries)

\* both clients as their constructors leave them, for the endpoints given,
\* with the handlers registered on them since
Constructed(wsUrl0, sseUrl0, handlers) ==
    /\ ws = "null"
    /\ orphans = NoOrphans
    /\ reconnectAttempts = 0
    /\ reconnectTimeoutId = "null"
    /\ timers = 0
    /\ state = "disconnected"
    /\ wsUrl = wsUrl0
    /\ shouldConnect = FALSE
    /\ visibilityState = "visible"
    /\ retriesMade = 0
    /\ stopped = FALSE
    /\ last = [op |-> "constructor", target |-> "none", fx |-> NoEffects]
    /\ eventSource = "null"
    /\ sseUrl = sseUrl0
    /\ sseState = "disconnected"
    /\ sseShouldConnect = FALSE
    /\ sseReconnectTimeoutId = "null"
    /\ sseTimers = 0
    /\ sseRetriesMade = 0
    /\ sseLast = [op |-> "constructor", target |-> "none", fx |-> NoSseEffects]
    /\ connectionHandlers = handlers
    /\ messageHandlers = handlers
    /\ sseConnectionHandlers = handlers
    /\ readingHandlers = handlers
    /\ currentMessage = Null
    /\ messageTimeoutId = 0
    /\ expiry = {}
    /\ currentPower = Null
    /\ wsConnected = "disconnected"
    /\ sseConnected = "disconnected"
    /\ dispatched = <<>>
    /\ shown = <<[content |-> "", ref |-> 0]>>
    /\ dlast = [op |-> "constructor", fx |-> NoDispEffects]
    /\ received = <<>>

\* the relay server started, no client connected
RelayStarted ==
    /\ clients = <<>>
    /\ readyState = [s \in Sessions |-> "NONE"]
    /\ handledEvents = [s \in Sessions |-> {}]
    /\ outbox = [s \in Sessions |-> <<>>]
    /\ sentLog = <<>>
    /\ inbound = NoInbound
    /\ wrote = {}
    /\ response = NoResponse

\* the controller has taken its configuration from the item saved, with
\* the relay it is to connect to started
Configured(saved) ==
    /\ RelayStarted
    /\ storage = saved
    /\ alertThresholdWatts = loadConfig(saved).alertThresholdWatts
    /\ brightnessMode = loadConfig(saved).brightnessMode
    /\ initialized = FALSE
    /\ screen = render(Null, Null)

\* new DisplayController() with the item saved in localStorage: one handler
\* of its own on each registry of the two clients
ControllerConstructed(saved) ==
    /\ Constructed(loadConfig(saved).wsUrl, loadConfig(saved).sseUrl,
                   <<"controller">>)
    /\ Configured(saved)

\* a MessageClient for any endpoint, beside an SSEClient with the default one
Init == \E u \in Urls : Constructed(u, "", <<>>) /\ Configured(NoItem)

\* an SSEClient for any endpoint, beside a MessageClient with the default one
SseInit == \E u \in SseUrls : Constructed("", u, <<>>) /\ Configured(NoItem)

\* start()
Connect ==
    /\ Commit(connect(Cur), "connect", "none", retriesMade)
    /\ stopped' = FALSE
    /\ UNCHANGED visibilityState

\* stop()
Disconnect ==
    /\ Commit(disconnect(Cur), "disconnect", "none", retriesMade)
    /\ stopped' = TRUE
    /\ UNCHANGED visibilityState

\* setDesiredEndpoint(url)
SetWsUrl ==
    \E url \in Urls :
        /\ Commit(setWsUrl(Cur, url), "setWsUrl", "none", retriesMade)
        /\ stopped' = FALSE
        /\ UNCHANGED visibilityState

\* the open event of the transport this.ws refers to
OnOpenCurrent ==
    /\ ws = "CONNECTING"
    /\ Commit(onopen([Cur EXCEPT !.ws = "OPEN"]), "onopen", "current", 0)
    /\ UNCHANGED <<visibilityState, stopped>>

\* the open event of a transport the client no longer refers to
OnOpenOrphan ==
    /\ orphans["CONNECTING"] > 0
    /\ Commit(onopen([Cur EXCEPT !.orphans["CONNECTING"] = @ - 1,
                                 !.orphans["OPEN"] = @ + 1]),
              "onopen", "orphan", 0)
    /\ UNCHANGED <<visibilityState, stopped>>

\* the close event of the transport this.ws refers to
OnCloseCurrent ==
    /\ ws \in {"CONNECTING", "OPEN"}
    /\ Commit(onclose([Cur EXCEPT !.ws = "CLOSED"]), "onclose", "current",
              retriesMade)
    /\ UNCHANGED <<visibilityState, stopped>>

\* the close event of a transport the client no longer refers to
OnCloseOrphan ==
    \E rs \in LiveStates :
        /\ orphans[rs] > 0
        /\ Commit(onclose([Cur EXCEPT !.orphans[rs] = @ - 1]), "onclose",
                  "orphan", retriesMade)
        /\ UNCHANGED <<visibilityState, stopped>>

\* the timer reconnectTimeoutId identifies fires
TimerFireCurrent ==
    /\ reconnectTimeoutId = "pending"
    /\ LET c == timerCallback([Cur EXCEPT !.timers = @ - 1,
                                          !.reconnectTimeoutId = "fired"])
       IN  Commit(c, "timer", "current", retriesMade + c.fx.created)
    /\ UNCHANGED <<visibilityState, stopped>>

\* a pending timer whose id scheduleReconnect has overwritten fires
TimerFireOrphan ==
    /\ timers > (IF reconnectTimeoutId = "pending" THEN 1 ELSE 0)
    /\ LET c == timerCallback([Cur EXCEPT !.timers = @ - 1])
       IN  Commit(c, "timer", "orphan", retriesMade + c.fx.created)
    /\ UNCHANGED <<visibilityState, stopped>>

\* document visibilitychange
VisibilityChange ==
    LET vis == IF visibilityState = "visible" THEN "hidden" ELSE "visible"
    IN  /\ visibilityState' = vis
        /\ Commit(onVisibilityChange(Cur, vis), "visibilitychange", vis,
                  retriesMade)
        /\ UNCHANGED stopped

Events ==
    \/ OnOpenCurrent
    \/ OnOpenOrphan
    \/ OnCloseCurrent
    \/ OnCloseOrphan
    \/ TimerFireCurrent
    \/ TimerFireOrphan
    \/ VisibilityChange

Next ==
    \/ Connect
    \/ Disconnect
    \/ SetWsUrl
    \/ Events

Spec == Init /\ [][Next]_vars

\* the caller starts the client once and never stops or retargets it:
\* desired-connected is held true from then on
Start ==
    /\ ~shouldConnect
    /\ Connect

NextHeld ==
    \/ Start
    \/ Events

SpecHeld == Init /\ [][NextHeld]_vars

\* the caller starts and stops the client; the page stays visible and the
\* endpoint is the one given to the constructor
NextStartStop ==
    \/ Start
    \/ Disconnect
    \/ OnOpenCurrent
    \/ OnOpenOrphan
    \/ OnCloseCurrent
    \/ OnCloseOrphan
    \/ TimerFireCurrent
    \/ TimerFireOrphan

\* retry timers armed with setTimeout fire unless clearTimeout cancels them
SpecFair ==
    /\ Init
    /\ [][NextStartStop]_vars
    /\ WF_vars(TimerFireCurrent)
    /\ WF_vars(TimerFireOrphan)

(* --------------------------- SSEClient actions ------------------------ *)
SseAssign(c, op, target) ==
    /\ eventSource' = c.eventSource
    /\ sseUrl' = c.sseUrl
    /\ sseState' = c.state
    /\ sseShouldConnect' = c.shouldConnect
    /\ sseReconnectTimeoutId' = c.reconnectTimeoutId
    /\ sseTimers' = c.timers
    /\ c.timers <= MaxTimers
    /\ sseRetriesMade' = IF op = "timer" /\ "connecting" \in
                              {c.fx.delivered[i] : i \in DOMAIN c.fx.delivered}
                         THEN sseRetriesMade + 1 ELSE sseRetriesMade
    /\ sseConnectionHandlers' = c.connectionHandlers
    /\ readingHandlers' = c.readingHandlers
    /\ sseLast' = [op |-> op, target |-> target, fx |-> c.fx]

\* the result of a handler of the SSEClient becomes the next state
SseCommit(c, op, target) ==
    /\ SseAssign(c, op, target)
    /\ UNCHANGED wsVars
    /\ DispCommit(Deliver(Disp, c.fx.calls), op)
    /\ received' = Received("sse", c.fx.received)

\* start()
SseConnect ==
    /\ SseCommit(sseConnect(SseCur), "connect", "none")
    /\ UNCHANGED visibilityState

\* stop()
SseDisconnect ==
    /\ SseCommit(sseDisconnect(SseCur), "disconnect", "none")
    /\ UNCHANGED visibilityState

\* setDesiredEndpoint(url)
SetSseUrl ==
    \E url \in SseUrls :
        /\ SseCommit(setSseUrl(SseCur, url), "setSseUrl", "none")
        /\ UNCHANGED visibilityState

\* the stream is established, the first time or by the native reconnection
SseOnOpen ==
    /\ eventSource = "CONNECTING"
    /\ SseCommit(sseOnOpen([SseCur EXCEPT !.eventSource = "OPEN"]),
                 "onopen", "none")
    /\ UNCHANGED visibilityState

\* the stream is lost or cannot be established: the EventSource either
\* reconnects natively (CONNECTING) or gives up (CLOSED)
SseOnError ==
    /\ eventSource \in {"CONNECTING", "OPEN"}
    /\ \E rs \in {"CONNECTING", "CLOSED"} :
          SseCommit(sseOnError([SseCur EXCEPT !.eventSource = rs]),
                    "onerror", rs)
    /\ UNCHANGED visibilityState

\* the 5 s supervisory timer fires
SseTimerFire ==
    /\ sseTimers > 0
    /\ sseRetriesMade < MaxSseRetries
    /\ SseCommit(sseTimerCallback(SseCur), "timer", "none")
    /\ UNCHANGED visibilityState

\* document visibilitychange
SseVisibilityChange ==
    LET vis == IF visibilityState = "visible" THEN "hidden" ELSE "visible"
    IN  /\ visibilityState' = vis
        /\ SseCommit(sseOnVisibilityChange(SseCur, vis), "visibilitychange",
                     vis)

SseNext ==
    \/ SseConnect
    \/ SseDisconnect
    \/ SetSseUrl
    \/ SseOnOpen
    \/ SseOnError
    \/ SseTimerFire
    \/ SseVisibilityChange

SpecSSE == SseInit /\ [][SseNext]_vars

(* ------------------- observers, frames and the controller ------------- *)
\* the handlers callers register beside those of the controller
Observers == {"h1", "h2"}

OnConnectionChange ==
    \E h \in Observers :
        /\ Commit(onConnectionChange(Cur, h), "onConnectionChange", h,
                  retriesMade)
        /\ UNCHANGED <<visibilityState, stopped>>

OffConnectionChange ==
    \E h \in Observers :
        /\ Commit(offConnectionChange(Cur, h), "offConnectionChange", h,
                  retriesMade)
        /\ UNCHANGED <<visibilityState, stopped>>

OnMessage ==
    \E h \in Observers :
        /\ Commit(onMessage(Cur, h), "onMessage", h, retriesMade)
        /\ UNCHANGED <<visibilityState, stopped>>

OffMessage ==
    \E h \in Observers :
        /\ Commit(offMessage(Cur, h), "offMessage", h, retriesMade)
        /\ UNCHANGED <<visibilityState, stopped>>

\* a frame arrives on the transport this.ws refers to
OnMessageCurrentOf(frames) ==
    \E data \in frames :
        /\ ws = "OPEN"
        /\ Len(received) < MaxFrames
        /\ Commit(onmessage(Cur, data, Len(received) + 1), "onmessage",
                  data, retriesMade)
        /\ UNCHANGED <<visibilityState, stopped>>

OnMessageCurrent == OnMessageCurrentOf(Frames)

SseOnConnectionChange ==
    \E h \in Observers :
        /\ SseCommit(sseOnConnectionChange(SseCur, h), "onConnectionChange", h)
        /\ UNCHANGED visibilityState

SseOffConnectionChange ==
    \E h \in Observers :
        /\ SseCommit(sseOffConnectionChange(SseCur, h), "offConnectionChange",
                     h)
        /\ UNCHANGED visibilityState

\* a frame arrives on the event stream
SseOnMessageOf(frames, max) ==
    \E data \in frames :
        /\ eventSource = "OPEN"
        /\ Len(received) < max
        /\ SseCommit(sseOnMessage(SseCur, data, Len(received) + 1),
                     "onmessage", data)
        /\ UNCHANGED visibilityState

SseOnMessage == SseOnMessageOf(SseFrames, MaxFrames)

\* the timer armed with setInterval: it stays armed when it has fired
ExpiryFire_Interval ==
    \E t \in expiry :
        /\ DispCommit(expiryCallback(Disp, t.message), "expiry")
        /\ UNCHANGED <<wsVars, sseVars, visibilityState, received>>

\* an expiry timer of the controller fires
ExpiryFire ==
    \E t \in expiry :
        /\ DispCommit(expiryCallback([Disp EXCEPT !.expiry = @ \ {t}],
                                     t.message), "expiry")
        /\ UNCHANGED <<wsVars, sseVars, visibilityState, received>>

\* the two clients with usable endpoints and no handler registered yet
ObsInit ==
    /\ Constructed("ws://relay:8765", "http://remo-e:8080/events", <<>>)
    /\ Configured(NoItem)

\* the frames tried while callers register and unregister handlers
ObsFrames ==
    {"{\"type\":\"text\",\"cont",
     "{\"type\":\"text\",\"content\":\"A\",\"duration\":1000}"}

OnMessageObserved == OnMessageCurrentOf(ObsFrames)

\* callers register and unregister handlers while the transports connect,
\* open and close and frames arrive
ObsNext ==
    \/ Start
    \/ OnOpenCurrent
    \/ OnCloseCurrent
    \/ OnConnectionChange
    \/ OffConnectionChange
    \/ OnMessage
    \/ OffMessage
    \/ OnMessageObserved
    \/ SseConnect
    \/ SseOnOpen
    \/ SseOnConnectionChange
    \/ SseOffConnectionChange

SpecObs == ObsInit /\ [][ObsNext]_vars

\* the DisplayController as its constructor leaves it with both endpoints
\* saved
DispInit == ControllerConstructed(UrlsItem)

\* initialize() starts both clients; frames arrive on the open transports
\* and expiry timers fire
DispNext ==
    \/ Start
    \/ OnOpenCurrent
    \/ OnMessageCurrent
    \/ SseConnect
    \/ SseOnOpen
    \/ SseOnMessage
    \/ ExpiryFire

SpecDisp == DispInit /\ [][DispNext]_vars

\* the controller with its expiry timers firing: a timer that stays armed
\* runs its callback
SpecDispFair == SpecDisp /\ WF_vars(ExpiryFire)

\* the arguments of updateConfig tried: one property each
PartialConfigs ==
    {Item("object", {"wsUrl"}, "ws://relay:8765", "", "", 0),
     Item("object", {"sseUrl"}, "", "http://remo-e:8080/events", "", 0),
     Item("object", {"sseUrl"}, "", "", "", 0),
     Item("object", {"brightnessMode"}, "", "", "dark", 0),
     Item("object", {"alertThresholdWatts"}, "", "", "", 1800),
     Item("object", {"alertThresholdWatts"}, "", "", "", 0)}

\* updateConfig(config): the endpoints of the two clients, the power stream
\* started when it has an endpoint and the controller is initialized, then
\* the fields of the controller
UpdateConfig ==
    \E config \in PartialConfigs :
        LET c1 == IF "wsUrl" \in config.has
                  THEN setWsUrl(Cur, config.wsUrl) ELSE Cur
            s1 == IF "sseUrl" \in config.has
                  THEN setSseUrl(SseCur, config.sseUrl) ELSE SseCur
            s2 == IF "sseUrl" \in config.has /\ config.sseUrl # ""
                     /\ initialized
                  THEN sseConnect(s1) ELSE s1
            d1 == Deliver(Deliver(Disp, c1.fx.calls), s2.fx.calls)
        IN  /\ WsAssign(c1, "updateConfig",
                        IF "wsUrl" \in config.has THEN config.wsUrl
                        ELSE "none", retriesMade)
            /\ SseAssign(s2, "updateConfig", "none")
            /\ DispCommit(updateConfig(d1, config, c1.wsUrl, s2.sseUrl),
                          "updateConfig")
            /\ stopped' = IF "wsUrl" \in config.has THEN FALSE ELSE stopped
            /\ UNCHANGED <<received, visibilityState>>

\* initialize(), from the point where nothing is awaited any more: both
\* clients are started when they have an endpoint
Initialize ==
    /\ ~initialized
    /\ LET c1 == IF wsUrl # "" THEN connect(Cur) ELSE Cur
           s1 == IF sseUrl # "" THEN sseConnect(SseCur) ELSE SseCur
           d1 == Deliver(Deliver(Disp, c1.fx.calls), s1.fx.calls)
       IN  /\ WsAssign(c1, "initialize", "none", retriesMade)
           /\ SseAssign(s1, "initialize", "none")
           /\ DispCommit(
                 notifyStateChange([d1 EXCEPT !.initialized = TRUE]),
                 "initialize")
           /\ stopped' = IF wsUrl # "" THEN FALSE ELSE stopped
           /\ UNCHANGED <<received, visibilityState>>

\* the frames of the relay and of the power meter tried with the
\* configuration
ConfigFrames ==
    {"{\"type\":\"text\",\"content\":\"A\",\"duration\":1000}",
     "{\"type\":\"clear\"}"}

ConfigReadings ==
    {"{\"type\":\"power.reading\",\"watts\":1500}",
     "{\"type\":\"power.reading\",\"watts\":2500}"}

OnMessageConfigured == OnMessageCurrentOf(ConfigFrames)

SseOnMessageConfigured == SseOnMessageOf(ConfigReadings, MaxFrames)

\* the controller constructed with nothing saved or with both endpoints saved
ConfigInit == \E saved \in {NoItem, UrlsItem} : ControllerConstructed(saved)

\* the controller is initialized and reconfigured while both clients
\* connect and receive
ConfigNext ==
    \/ Initialize
    \/ UpdateConfig
    \/ OnOpenCurrent
    \/ OnMessageConfigured
    \/ SseOnOpen
    \/ SseOnMessageConfigured
    \/ ExpiryFire

SpecConfig == ConfigInit /\ [][ConfigNext]_vars

\* the frames of the relay tried with the screen: a message, a value that
\* is no message, and clear
RenderFrames ==
    {"{\"type\":\"text\",\"content\":\"A\",\"duration\":1000}",
     "false",
     "{\"type\":\"clear\"}"}

OnMessageRendered == OnMessageCurrentOf(RenderFrames)

\* both clients connect and receive while the state handler of main.ts
\* renders every state it is told of
RenderNext ==
    \/ Start
    \/ OnOpenCurrent
    \/ OnMessageRendered
    \/ SseConnect
    \/ SseOnOpen
    \/ SseOnMessageConfigured
    \/ ExpiryFire

SpecRender == DispInit /\ [][RenderNext]_vars

\* the result of a handler of the relay becomes the next state
RelayCommit(r, from, data) ==
    /\ clients' = r.clients
    /\ readyState' = r.readyState
    /\ outbox' = r.outbox
    /\ sentLog' = r.sentLog
    /\ wrote' = r.wrote
    /\ response' = r.response
    /\ inbound' = [from |-> from, data |-> data]
    /\ UNCHANGED <<wsVars, sseVars, visibilityState, dispVars, received>>

\* a client has connected to the relay
RelayConnection ==
    \E sock \in Sessions :
        /\ readyState[sock] = "NONE"
        /\ RelayCommit(relayOnConnection(
                          [Relay EXCEPT !.readyState[sock] = "OPEN"], sock),
                       "none", "")
        /\ handledEvents' = [handledEvents EXCEPT ![sock] = @ \cup {"connection"}]

\* the closing handshake of a session has started: no handler runs
RelayClosing ==
    \E sock \in Sessions :
        /\ readyState[sock] = "OPEN"
        /\ RelayCommit([Relay EXCEPT !.readyState[sock] = "CLOSING"],
                       "none", "")
        /\ UNCHANGED handledEvents

\* the close event of a session
RelayClose ==
    \E sock \in Sessions :
        /\ "connection" \in handledEvents[sock]
        /\ "close" \notin handledEvents[sock]
        /\ RelayCommit(relayOnClose(
                          [Relay EXCEPT !.readyState[sock] = "CLOSED"], sock),
                       "none", "")
        /\ handledEvents' = [handledEvents EXCEPT ![sock] = @ \cup {"close"}]

\* the error event of a session, before or after its close event
RelayError ==
    \E sock \in Sessions :
        /\ "connection" \in handledEvents[sock]
        /\ "error" \notin handledEvents[sock]
        /\ RelayCommit(relayOnError(
                          [Relay EXCEPT !.readyState[sock] =
                             IF @ = "CLOSED" THEN "CLOSED" ELSE "CLOSING"],
                          sock),
                       "none", "")
        /\ handledEvents' = [handledEvents EXCEPT ![sock] = @ \cup {"error"}]

\* the frames clients and POST /send give the relay: malformed, null,
\* hello, status, a message, and clear with white space
RelayFrames ==
    {"{\"type\":\"text\",\"cont",
     "null",
     "{\"type\":\"hello\",\"client\":\"ios-pwa-display\"}",
     "{\"type\":\"status\"}",
     "{\"type\":\"text\",\"content\":\"A\",\"duration\":1000}",
     "{ \"type\" : \"clear\" }"}

\* a message of an open session arrives at the relay
RelayMessage ==
    \E sock \in Sessions, data \in RelayFrames :
        /\ readyState[sock] = "OPEN"
        /\ Len(sentLog) < MaxRelayFrames
        /\ RelayCommit(relayOnMessage(Relay, sock, data), sock, data)
        /\ UNCHANGED handledEvents

\* POST /send with one of the bodies given
PostSendOf(bodies) ==
    \E body \in bodies :
        /\ Len(sentLog) < MaxRelayFrames
        /\ RelayCommit(postSend(Relay, body), "http", body)
        /\ UNCHANGED handledEvents

PostSend == PostSendOf(RelayFrames)

\* the messages an operator posts
RelayBodies ==
    {"{\"type\":\"text\",\"content\":\"A\",\"duration\":1000}",
     "{ \"type\" : \"clear\" }"}

PostSendMessage == PostSendOf(RelayBodies)

\* the relay started, no client connected
RelayInit == Constructed("", "", <<>>) /\ Configured(NoItem)

\* sessions connect, close and fail while an operator posts messages
RelayNext ==
    \/ RelayConnection
    \/ RelayClosing
    \/ RelayClose
    \/ RelayError
    \/ PostSendMessage

SpecRelay == RelayInit /\ [][RelayNext]_vars

\* sessions connect and start closing while clients and operators send
InboundNext ==
    \/ RelayConnection
    \/ RelayClosing
    \/ RelayMessage
    \/ PostSend

SpecInbound == RelayInit /\ [][InboundNext]_vars

\* the page is loaded again: the controller and both clients are
\* constructed anew from the item in localStorage, and nothing else is kept
Reload ==
    /\ UNCHANGED <<storage, relayVars>>
    /\ ws' = "null"
    /\ orphans' = NoOrphans
    /\ reconnectAttempts' = 0
    /\ reconnectTimeoutId' = "null"
    /\ timers' = 0
    /\ state' = "disconnected"
    /\ wsUrl' = loadConfig(storage).wsUrl
    /\ shouldConnect' = FALSE
    /\ visibilityState' = "visible"
    /\ retriesMade' = 0
    /\ stopped' = FALSE
    /\ last' = [op |-> "constructor", target |-> "none", fx |-> NoEffects]
    /\ eventSource' = "null"
    /\ sseUrl' = loadConfig(storage).sseUrl
    /\ sseState' = "disconnected"
    /\ sseShouldConnect' = FALSE
    /\ sseReconnectTimeoutId' = "null"
    /\ sseTimers' = 0
    /\ sseRetriesMade' = 0
    /\ sseLast' = [op |-> "constructor", target |-> "none", fx |-> NoSseEffects]
    /\ connectionHandlers' = <<"controller">>
    /\ messageHandlers' = <<"controller">>
    /\ sseConnectionHandlers' = <<"controller">>
    /\ readingHandlers' = <<"controller">>
    /\ currentMessage' = Null
    /\ messageTimeoutId' = 0
    /\ expiry' = {}
    /\ currentPower' = Null
    /\ wsConnected' = "disconnected"
    /\ sseConnected' = "disconnected"
    /\ dispatched' = <<>>
    /\ shown' = <<[content |-> "", ref |-> 0]>>
    /\ dlast' = [op |-> "constructor", fx |-> NoDispEffects]
    /\ received' = <<>>
    /\ alertThresholdWatts' = loadConfig(storage).alertThresholdWatts
    /\ brightnessMode' = loadConfig(storage).brightnessMode
    /\ initialized' = FALSE
    /\ screen' = render(Null, Null)

\* the controller constructed with whatever localStorage holds
LoadInit == \E saved \in StoredItems : ControllerConstructed(saved)

\* the page is loaded, configured and loaded again
LoadNext ==
    \/ Reload
    \/ Initialize
    \/ UpdateConfig
    \/ OnOpenCurrent
    \/ SseOnOpen

SpecLoad == LoadInit /\ [][LoadNext]_vars

\* the readings of the power meter: below, at and above the default
\* threshold, and either side of a threshold of 1800
PowerFrames ==
    {"{\"type\":\"power.reading\",\"watts\":1500}",
     "{\"type\":\"power.reading\",\"watts\":1800}",
     "{\"type\":\"power.reading\",\"watts\":2000}",
     "{\"type\":\"power.reading\",\"watts\":2100}",
     "{\"type\":\"power.reading\",\"watts\":2500}",
     "{\"type\":\"power.reading\",\"watts\":2600}"}

\* the controller constructed with a power endpoint saved, with or without
\* a threshold of its own
AlertInit ==
    \E saved \in StoredItems :
        /\ loadConfig(saved).sseUrl # ""
        /\ ControllerConstructed(saved)

SseOnReading == SseOnMessageOf(PowerFrames, MaxReadings)

\* the power stream is opened and delivers readings
AlertNext ==
    \/ SseConnect
    \/ SseOnOpen
    \/ SseOnReading

SpecAlert == AlertInit /\ [][AlertNext]_vars

TypeOK ==
    /\ ws \in {"null", "CONNECTING", "OPEN", "CLOSED"}
    /\ orphans \in [LiveStates -> 0..MaxOrphans]
    /\ reconnectAttempts \in 0..(maxReconnectAttempts + MaxTimers)
    /\ reconnectTimeoutId \in {"null", "pending", "fired"}
    /\ timers \in 0..MaxTimers
    /\ state \in {"disconnected", "connecting", "connected"}
    /\ wsUrl \in Urls
    /\ shouldConnect \in BOOLEAN
    /\ stopped \in BOOLEAN
    /\ visibilityState \in {"visible", "hidden"}
    /\ reconnectTimeoutId = "pending" => timers > 0
    /\ shouldConnect => wsUrl # ""
    /\ eventSource \in {"null", "CONNECTING", "OPEN", "CLOSED"}
    /\ sseUrl \in SseUrls
    /\ sseState \in {"disconnected", "connecting", "connected"}
    /\ sseShouldConnect \in BOOLEAN
    /\ sseReconnectTimeoutId \in {"null", "pending"}
    /\ sseShouldConnect => sseUrl # ""
    /\ messageTimeoutId \in 0..MaxFrames
    /\ Cardinality(expiry) <= 1
    /\ Len(received) <= MaxFrames
    /\ wsConnected \in {"disconnected", "connecting", "connected"}
    /\ sseConnected \in {"disconnected", "connecting", "connected"}

(* ------------------------------- claims -------------------------------- *)
CallbackOps == {"onopen", "onclose", "timer", "visibilitychange"}

\* C1: with desired-connected held true, the states delivered to observers
\* never go from disconnected straight to connected, and reach connected
\* from connecting only in the open event of a transport.
C1_StateGrammar ==
    [][LET path == <<state>> \o last'.fx.delivered
       IN  \A i \in 1..(Len(path) - 1) :
             /\ ~(path[i] = "disconnected" /\ path[i + 1] = "connected")
             /\ (path[i] = "connecting" /\ path[i + 1] = "connected")
                   => last'.op = "onopen"]_vars

\* C2: from the return of stop() until the caller's next start() or
\* setDesiredEndpoint, desired-connected stays false, the state stays
\* disconnected and no handler opens a transport.
C2_NoCallbackAfterStop ==
    stopped => /\ ~shouldConnect
               /\ state = "disconnected"
               /\ last.fx.created = 0

\* C3: immediately after stop() returns, desired-connected is false, no
\* retry timer is pending, no transport of the client is connecting or
\* open, and the state is disconnected.
C3_AfterStop ==
    last.op = "disconnect" =>
        /\ ~shouldConnect
        /\ timers = 0
        /\ ws = "null"
        /\ orphans["CONNECTING"] = 0
        /\ orphans["OPEN"] = 0
        /\ state = "disconnected"

\* C4: start() sets desired-connected, and start(), the retry timer and
\* visibility resume open a transport only when the client is disconnected
\* with no connection attempt outstanding.
C4_NoSecondTransport ==
    [][/\ (last'.op = "connect" /\ wsUrl # "") => shouldConnect'
       /\ (last'.op \in {"connect", "timer", "visibilitychange"}
             /\ last'.fx.created > 0)
            => (state = "disconnected" /\ ws # "CONNECTING")]_vars

\* the current transport has just closed, or the constructor has just thrown,
\* with desired-connected true and fewer than 20 retries made
ClosedWhileDesired ==
    /\ \/ last.op = "onclose" /\ last.target = "current"
       \/ last.fx.threw
    /\ shouldConnect
    /\ reconnectAttempts < maxReconnectAttempts

DelayTable ==
    <<256000, 384000, 576000, 864000, 1296000, 1944000, 2916000, 4374000,
      6561000>>

ExpectedDelay256(n) == IF n < Len(DelayTable) THEN DelayTable[n + 1] ELSE 7680000

C7_RetryCap ==
    [][/\ retriesMade' <= maxReconnectAttempts
       /\ reconnectAttempts' >= maxReconnectAttempts
            => last'.fx.scheduled = <<>>
       /\ (reconnectAttempts >= maxReconnectAttempts /\ shouldConnect
             /\ last'.op \in CallbackOps) => shouldConnect']_vars

\* C8: every open event resets the retry counter to 0, makes the state
\* connected and sends the hello payload on the transport that opened.
C8_OpenSendsHello ==
    last.op = "onopen" =>
        /\ reconnectAttempts = 0
        /\ state = "connected"
        /\ last.target = "current"
        /\ last.fx.sent = <<"hello">>

\* the retry cap has been reached and nothing of the client is outstanding
CapReached ==
    /\ reconnectAttempts >= maxReconnectAttempts
    /\ shouldConnect
    /\ state = "disconnected"
    /\ timers = 0
    /\ ws \in {"null", "CLOSED"}
    /\ OrphanCount(orphans) = 0

\* C9 as claimed: once the retry cap has been reached the client stays
\* disconnected and makes no connection attempt until the caller calls
\* start() (or retargets or stops it), and start() with a usable endpoint
\* then opens a transport and moves the state to connecting.
C9_PassiveUntilStart ==
    [][CapReached =>
         /\ last'.op \notin {"connect", "setWsUrl", "disconnect"}
              => /\ last'.fx.created = 0
                 /\ ~last'.fx.threw
                 /\ state' = "disconnected"
         /\ (last'.op = "connect" /\ ~NewWebSocketThrows(wsUrl))
              => /\ last'.fx.created = 1
                 /\ state' = "connecting"]_vars

\* C9 amended: once the retry counter has reached 20 with no retry timer
\* pending, no transport event arms a retry timer or opens a transport, and
\* only an open event moves the state out of disconnected; a connection
\* attempt is made only by start(), by the endpoint setter or by a
\* visibility resume; start() with a usable endpoint and no open transport
\* opens a transport and moves the state to connecting.
C9_PassiveUntilStartOrResume ==
    [][(reconnectAttempts >= maxReconnectAttempts /\ shouldConnect
          /\ timers = 0) =>
         /\ last'.op \notin {"connect", "setWsUrl", "visibilitychange"}
              => /\ last'.fx.created = 0
                 /\ ~last'.fx.threw
                 /\ timers' = 0
         /\ (last'.op \in {"onclose", "disconnect"} /\ state = "disconnected")
              => state' = "disconnected"
         /\ (last'.op = "visibilitychange" /\ last'.target = "hidden")
              => last'.fx = NoEffects
         /\ (last'.op = "connect" /\ ~NewWebSocketThrows(wsUrl)
               /\ ws # "OPEN")
              => /\ last'.fx.created = 1
                 /\ ws' = "CONNECTING"
                 /\ state' = "connecting"]_vars

C9_Witness ==
    /\ last.op = "connect"
    /\ last.fx.created = 1
    /\ reconnectAttempts = maxReconnectAttempts
    /\ state = "connecting"
    /\ timers = 0

\* C10: a visibility change opens a transport exactly when the page has
\* become visible with desired-connected true and the state disconnected,
\* and otherwise changes nothing of the client.
C10_VisibilityResume ==
    [][last'.op = "visibilitychange" =>
         IF last'.target = "visible" /\ shouldConnect /\ state = "disconnected"
         THEN last'.fx.created = 1 \/ last'.fx.threw
         ELSE /\ last'.fx = NoEffects
              /\ UNCHANGED <<ws, orphans, reconnectAttempts,
                             reconnectTimeoutId, timers, state, wsUrl,
                             shouldConnect>>]_vars

\* C11: the endpoint setter with a non-empty url leaves no earlier
\* transport connecting or open and no earlier retry timer pending, and
\* makes a fresh attempt exactly when desired-connected was true before the
\* call; otherwise the client is disconnected with desired-connected false.
C11_SetEndpoint ==
    [][(last'.op = "setWsUrl" /\ wsUrl' # "") =>
         /\ orphans'["CONNECTING"] = 0
         /\ orphans'["OPEN"] = 0
         /\ timers' = Len(last'.fx.scheduled)
         /\ IF shouldConnect
            THEN /\ shouldConnect'
                 /\ last'.fx.created = 1 \/ last'.fx.threw
            ELSE /\ ~shouldConnect'
                 /\ state' = "disconnected"
                 /\ last'.fx.created = 0
                 /\ ~last'.fx.threw]_vars

\* C12: after the endpoint setter is given the empty url the state is
\* disconnected, desired-connected is false and no retry timer is pending;
\* start() with the empty url neither sets desired-connected nor opens a
\* transport.
C12_EmptyUrlDisarms ==
    [][/\ (last'.op = "setWsUrl" /\ wsUrl' = "") =>
            /\ state' = "disconnected"
            /\ ~shouldConnect'
            /\ timers' = 0
       /\ (last'.op = "connect" /\ wsUrl = "") =>
            /\ ~shouldConnect'
            /\ last'.fx.created = 0
            /\ ~last'.fx.threw]_vars

\* C13: once stop() has returned, a second stop() changes nothing and
\* delivers no state-change notification, and the result of either call is
\* state disconnected, desired-connected false and no retry scheduled.
C13_StopIdempotent ==
    last.op = "disconnect" =>
        LET c == disconnect(Cur)
        IN  /\ c.fx.delivered = <<>>
            /\ c = Cur
            /\ c.state = "disconnected"
            /\ ~c.shouldConnect
            /\ c.reconnectTimeoutId = "null"
            /\ c.timers = 0

\* the handlers of a registry, as a set
Registered(handlers) == {handlers[i] : i \in 1..Len(handlers)}

\* every value of args, in order, handed to every handler, in order
IsBroadcast(calls, handlers, ev, args) ==
    LET n == Len(handlers)
    IN  /\ Len(calls) = Len(args) * n
        /\ \A k \in 1..Len(calls) :
              calls[k] = [h |-> handlers[((k - 1) % n) + 1], ev |-> ev,
                          arg |-> args[((k - 1) \div n) + 1]]

\* the states a handler went through are those it delivered
IsStatePath(from, delivered, to) ==
    LET path == <<from>> \o delivered
    IN  /\ path[Len(path)] = to
        /\ \A i \in 1..(Len(path) - 1) : path[i] # path[i + 1]

\* a handler of the MessageClient has run
WsStep ==
    \/ wsVars' # wsVars
    \/ received' # received /\ received'[Len(received')].src = "ws"

\* a handler of the SSEClient has run
SseStep ==
    \/ sseVars' # sseVars
    \/ received' # received /\ received'[Len(received')].src = "sse"

C15_MalformedDropped ==
    [][/\ (WsStep /\ last'.op = "onmessage"
             /\ ~JSONparse(last'.target).ok) =>
            /\ last'.fx.calls = <<>>
            /\ ws' = "OPEN"
            /\ UNCHANGED <<state, reconnectAttempts, reconnectTimeoutId,
                           timers, shouldConnect, orphans, sseVars>>
            /\ UNCHANGED dispVars
       /\ (SseStep /\ sseLast'.op = "onmessage"
             /\ ~JSONparse(sseLast'.target).ok) =>
            /\ sseLast'.fx.calls = <<>>
            /\ eventSource' = "OPEN"
            /\ UNCHANGED <<sseState, sseShouldConnect, sseReconnectTimeoutId,
                           wsVars>>
            /\ UNCHANGED dispVars]_vars

C15_Witness ==
    /\ last.op = "onmessage"
    /\ ~JSONparse(last.target).ok
    /\ Len(received) = 3
    /\ received[3].src = "ws"
    /\ currentMessage.content = "A"
    /\ expiry # {}
    /\ currentPower.watts = 2500
    /\ state = "connected"

\* the values of the frames of the WebSocket that parse, in the order received
ParsedFrames ==
    LET idx == SelectSeq([i \in 1..Len(received) |-> i],
                         LAMBDA i : /\ received[i].src = "ws"
                                    /\ JSONparse(received[i].data).ok)
    IN  [k \in 1..Len(idx) |->
           [JSONparse(received[idx[k]].data).value EXCEPT !.ref = idx[k]]]

\* C16: the dispatcher has been called with the messages of the frames
\* received on the transport, in the order received, once for each frame.
C16_DispatchOrder == dispatched = ParsedFrames

C16_Witness ==
    /\ Len(dispatched) = 3
    /\ dispatched[1].content = "B"
    /\ dispatched[2].type = "config"
    /\ dispatched[3].content = "A"

\* the message the frame just received on the WebSocket parsed to
Arrived == [JSONparse(last'.target).value EXCEPT !.ref = Len(received')]

\* a frame has just been received on the WebSocket and has parsed to an
\* object that is a message of a type other than clear and config
MessageArrives ==
    /\ WsStep
    /\ last'.op = "onmessage"
    /\ JSONparse(last'.target).ok
    /\ Arrived.kind = "object"
    /\ Arrived.type \notin {"clear", "config"}

\* a message is active and its expiry timer is pending
ActiveWithTimer ==
    /\ currentMessage # Null
    /\ \E t \in expiry : t.message = currentMessage

\* the contents of the active messages the state observers were told of
ShownContents == [i \in 1..Len(shown) |-> shown[i].content]

\* C17: when a message B that is neither clear nor config arrives while A
\* is active with its expiry timer pending, the timer of A is cancelled, B
\* is active, and a timer is pending afterwards only if the duration of B
\* is positive, and then it is the timer of B; a timer that fires belongs
\* to the active message.  A (1000 ms) followed by B (500 ms) before A
\* expires shows none, A, B and finally none when the timer of B fires.
C17_Supersede ==
    /\ [][/\ (MessageArrives /\ ActiveWithTimer) =>
               /\ expiry' \cap expiry = {}
               /\ currentMessage' = Arrived
               /\ shown' = Append(shown, [content |-> Arrived.content,
                                          ref |-> Arrived.ref])
               /\ expiry' # {} <=>
                    (Arrived.duration # Undefined /\ Arrived.duration > 0)
               /\ \A t \in expiry' :
                    /\ t.message = Arrived
                    /\ t.delay = Arrived.duration
          /\ \A t \in expiry \ expiry' :
               (currentMessage' # currentMessage /\ ~WsStep) =>
                 /\ t.message = currentMessage
                 /\ currentMessage' = Null]_vars
    /\ []((/\ Len(dispatched) = 2
           /\ dispatched[1].content = "A"
           /\ dispatched[2].content = "B"
           /\ Len(shown) >= 3
           /\ shown[3].content = "B") =>
            \/ /\ ShownContents = <<"", "A", "B">>
               /\ currentMessage = dispatched[2]
               /\ expiry = {[id |-> dispatched[2].ref,
                             message |-> dispatched[2], delay |-> 500]}
            \/ /\ ShownContents = <<"", "A", "B", "">>
               /\ currentMessage = Null
               /\ expiry = {})

C17_Witness ==
    /\ Len(dispatched) = 2
    /\ dispatched[1].duration = 1000
    /\ dispatched[2].duration = 500
    /\ ShownContents = <<"", "A", "B", "">>
    /\ dlast.op = "expiry"
    /\ currentMessage = Null

\* a frame has just been received on the WebSocket and has parsed to a
\* message of the given type
Arrives(type) ==
    /\ WsStep
    /\ last'.op = "onmessage"
    /\ JSONparse(last'.target).ok
    /\ Arrived.kind = "object"
    /\ Arrived.type = type

\* C18: a config message has no visible effect: the active message is
\* unchanged, a pending expiry timer stays armed, no state observer is
\* notified, and the config message is not the active message.
C18_ConfigNoEffect ==
    [][Arrives("config") =>
         /\ UNCHANGED <<currentMessage, expiry, currentPower, shown>>
         /\ dlast'.fx.notified = <<>>
         /\ dlast'.fx.sounds = <<>>
         /\ currentMessage' # Arrived]_vars

\* C19: a clear message cancels the pending expiry timer, leaves no message
\* active and notifies the state observers once, whatever was active before.
C19_Clear ==
    [][Arrives("clear") =>
         /\ expiry' = {}
         /\ messageTimeoutId' = 0
         /\ currentMessage' = Null
         /\ dlast'.op = "onmessage"
         /\ Len(dlast'.fx.notified) = 1
         /\ dlast'.fx.notified[1].message = Null]_vars

C19_Witness ==
    /\ dlast.op = "onmessage"
    /\ Len(dispatched) = 2
    /\ dispatched[1].duration = 1000
    /\ dispatched[2].type = "clear"
    /\ dlast.fx.cleared # {}
    /\ Len(dlast.fx.notified) = 1
    /\ currentMessage = Null
    /\ expiry = {}
    /\ ShownContents = <<"", "A", "">>

\* the active message has a positive duration
ActiveTimed ==
    /\ currentMessage # Null
    /\ currentMessage.duration # Undefined
    /\ currentMessage.duration > 0

\* C20: a message installed with a positive duration stays active, with its
\* expiry timer pending, until a later message or clear arrives or the
\* timer fires, and the firing of the timer leaves no message active and
\* notifies the state observers; a message with no or a zero duration
\* stays active until a later message or clear arrives.
C20_Expiry ==
    /\ [](ActiveTimed => \E t \in expiry : t.message = currentMessage)
    /\ [][(currentMessage # Null /\ currentMessage' # currentMessage) =>
            \/ WsStep /\ last'.op = "onmessage"
            \/ /\ ActiveTimed
               /\ dlast'.op = "expiry"
               /\ expiry \ expiry' = {[id |-> currentMessage.ref,
                                       message |-> currentMessage,
                                       delay |-> currentMessage.duration]}
               /\ currentMessage' = Null
               /\ Len(dlast'.fx.notified) = 1]_vars

\* C21: at most one expiry timer is pending, and a pending expiry timer is
\* the one messageTimeoutId names, armed for the active message with the
\* duration of that message, which is positive.
C21_SingleTimer ==
    /\ Cardinality(expiry) <= 1
    /\ \A t \in expiry :
         /\ currentMessage # Null
         /\ t.message = currentMessage
         /\ t.id = messageTimeoutId
         /\ currentMessage.duration # Undefined
         /\ currentMessage.duration > 0
         /\ t.delay = currentMessage.duration

C21_Witness ==
    /\ Len(dispatched) = 3
    /\ dispatched[1].duration = 1000
    /\ dispatched[2].type = "config"
    /\ dispatched[3].duration = 500
    /\ currentMessage = dispatched[3]
    /\ Cardinality(expiry) = 1


\* the watts of the power readings received, in the order of arrival
ReadingWatts ==
    LET isReading(r) ==
            /\ r.src = "sse"
            /\ JSONparse(r.data).ok
            /\ JSONparse(r.data).value.kind = "object"
            /\ JSONparse(r.data).value.type = "power.reading"
        readings == SelectSeq(received, isReading)
    IN  [i \in 1..Len(readings) |-> JSONparse(readings[i].data).value.watts]

\* C22: the handler of a power reading plays the alert sound exactly when
\* the reading is at or above the threshold and the reading before it is
\* absent or below the threshold.
C22_ThresholdAlert ==
    LET n == Len(ReadingWatts)
    IN  (n > 0 /\ received[Len(received)].src = "sse") =>
            /\ dlast.op = "onmessage"
            /\ dlast.fx.handled = <<"reading">>
            /\ ("alert" \in {dlast.fx.sounds[i] : i \in DOMAIN dlast.fx.sounds})
                <=> /\ ReadingWatts[n] >= alertThresholdWatts
                    /\ (n = 1 \/ ReadingWatts[n - 1] < alertThresholdWatts)

C22_Witness ==
    /\ alertThresholdWatts = DEFAULT_ALERT_THRESHOLD
    /\ ReadingWatts = <<1500, 2500, 2600, 1800, 2100>>
    /\ dlast.fx.sounds = <<"alert">>

\* C23: the current power reading never becomes none again once received
\* and changes only when a newer reading arrives, which then is the current
\* one; display messages, clear, expiry, connection-state changes and
\* configuration updates leave it unchanged.
C23_PowerHeld ==
    [][/\ currentPower # Null => currentPower' # Null
       /\ currentPower' # currentPower =>
            /\ Len(received') = Len(received) + 1
            /\ received'[Len(received')].src = "sse"
            /\ JSONparse(received'[Len(received')].data).ok
            /\ JSONparse(received'[Len(received')].data).value.type
                 = "power.reading"
            /\ currentPower' =
                 [JSONparse(received'[Len(received')].data).value
                    EXCEPT !.ref = Len(received')]]_vars

C23_Witness ==
    /\ Len(received) = 3
    /\ received[1].src = "sse"
    /\ received[2].data = "{\"type\":\"text\",\"content\":\"A\",\"duration\":1000}"
    /\ received[3].data = "{\"type\":\"clear\"}"
    /\ currentPower # Null
    /\ currentPower.ref = 1
    /\ currentPower.watts = 2500
    /\ dlast.op = "updateConfig"
    /\ alertThresholdWatts = 1800
    /\ wsConnected = "connecting"

\* C24: whenever a current power reading exists it is what is rendered; the
\* active message is rendered only when there is no current power reading;
\* the screen is empty only when both are none.
C24_RenderPrecedence ==
    /\ currentPower # Null =>
         screen = [shows |-> "power", ref |-> currentPower.ref]
    /\ screen.shows = "message" =>
         /\ currentPower = Null
         /\ currentMessage # Null
         /\ screen.ref = currentMessage.ref
    /\ screen.shows = "empty" =>
         /\ currentPower = Null
         /\ currentMessage = Null

\* what a session must have been sent: the data of the broadcasts that
\* found it in the registry and open, in order
Broadcasts(s) ==
    LET found == SelectSeq(sentLog,
                           LAMBDA e : s \in e.registered /\ s \in e.open)
    IN  [i \in 1..Len(found) |-> found[i].data]

\* C25: broadcast(message) writes the message exactly once to every session
\* that is in the registry and open at the time of the call and to no
\* other: a session that is not ready is skipped and nothing reaches it
\* later, and a session that connects after the broadcast never receives
\* that message.
C25_Broadcast == \A s \in Sessions : outbox[s] = Broadcasts(s)

C25_Witness ==
    /\ Len(sentLog) = 1
    /\ sentLog[1].data = "{\"type\":\"clear\"}"
    /\ sentLog[1].registered = {"s1", "s2"}
    /\ sentLog[1].open = {"s1"}
    /\ outbox["s1"] = <<"{\"type\":\"clear\"}">>
    /\ outbox["s2"] = <<>>
    /\ readyState["s3"] = "OPEN"
    /\ clients = <<"s1", "s3">>
    /\ outbox["s3"] = <<>>

\* the last handler of the relay was the message handler of a session and
\* the message parsed
ClientMessageParsed ==
    /\ inbound.from \in Sessions
    /\ JSONparse(inbound.data).ok

\* C26: an inbound client message of type hello or status is never
\* broadcast to any session; every other parseable inbound client message
\* is broadcast to every open session except the one that sent it.
C26_InboundRelay ==
    ClientMessageParsed =>
        IF JSONparse(inbound.data).value.type \in {"hello", "status"}
        THEN wrote = {}
        ELSE wrote = (Registry(Relay) \cap OpenSessions(Relay))
                        \ {inbound.from}

\* the sessions that connected and had neither a close nor an error handled
Connected ==
    {s \in Sessions : /\ "connection" \in handledEvents[s]
                      /\ "close" \notin handledEvents[s]
                      /\ "error" \notin handledEvents[s]}

\* C27: the registry contains exactly the sessions that have connected and
\* for which neither a close nor an error has been handled, each once;
\* the close or error event of a session already removed changes nothing.
C27_Registry ==
    /\ [](/\ Registry(Relay) = Connected
          /\ Len(clients) = Cardinality(Connected))
    /\ [][\A s \in Sessions :
            (/\ handledEvents'[s] # handledEvents[s]
             /\ "connection" \in handledEvents[s]
             /\ s \notin Connected) => clients' = clients]_vars

C27_Witness ==
    /\ handledEvents["s1"] = {"connection", "error", "close"}
    /\ handledEvents["s2"] = {"connection"}
    /\ handledEvents["s3"] = {"connection", "close"}
    /\ readyState["s2"] = "CLOSING"
    /\ clients = <<"s2">>

\* C28: POST /send with a body that is not parseable JSON responds 400 and
\* writes to no session; with a parseable body it broadcasts the message
\* and responds {ok: true, clients: n} where n is the number of sessions
\* in the registry.
C28_PostSend ==
    inbound.from = "http" =>
        IF JSONparse(inbound.data).ok
        THEN /\ wrote = Registry(Relay) \cap OpenSessions(Relay)
             /\ sentLog # <<>>
             /\ sentLog[Len(sentLog)].data =
                  JSONstringify(JSONparse(inbound.data).value)
             /\ \A s \in wrote :
                  outbox[s][Len(outbox[s])] = sentLog[Len(sentLog)].data
             /\ response = [status |-> 200, ok |-> TRUE,
                            clients |-> Cardinality(Registry(Relay)),
                            error |-> ""]
        ELSE /\ wrote = {}
             /\ response.status = 400
             /\ ~response.ok

C28_Witness ==
    /\ inbound = [from |-> "http", data |-> "{ \"type\" : \"clear\" }"]
    /\ response.status = 200
    /\ response.clients = 3
    /\ wrote = {"s2"}
    /\ Len(sentLog) = 2
    /\ sentLog[1].data = "null"

\* C29: on the SSEClient a retry is scheduled only when an error arrives
\* with the stream closed, or the stream cannot be created, and the
\* connection is wanted; the delay is 5000 ms; at most one such timer is
\* pending; the timer reconnects only if the connection is still wanted and
\* the state is disconnected; and an error with the stream closed schedules
\* a retry however many retries were made before.
C29_SseRetry ==
    /\ [](/\ sseTimers <= 1
          /\ sseTimers = 1 <=> sseReconnectTimeoutId = "pending")
    /\ [][SseStep =>
            /\ sseLast'.fx.scheduled # <<>> =>
                 /\ sseLast'.fx.scheduled = <<5000>>
                 /\ sseShouldConnect'
                 /\ \/ sseLast'.op = "onerror" /\ sseLast'.target = "CLOSED"
                    \/ sseLast'.fx.threw
            /\ (/\ sseLast'.op = "timer"
                /\ sseLast'.fx.created > 0 \/ sseLast'.fx.threw) =>
                 /\ sseShouldConnect
                 /\ sseState = "disconnected"
            /\ (/\ sseLast'.op = "onerror"
                /\ sseLast'.target = "CLOSED"
                /\ sseShouldConnect
                /\ sseTimers = 0) =>
                 sseLast'.fx.scheduled = <<5000>>]_vars

C29_Witness ==
    /\ sseRetriesMade = 3
    /\ sseLast.op = "onerror"
    /\ sseLast.target = "CLOSED"
    /\ sseLast.fx.scheduled = <<5000>>
    /\ sseTimers = 1
    /\ sseState = "disconnected"

\* the configuration the controller and its clients hold
LoadedConfig ==
    [wsUrl |-> wsUrl, sseUrl |-> sseUrl, brightnessMode |-> brightnessMode,
     alertThresholdWatts |-> alertThresholdWatts]

\* C30: loading the persisted configuration never fails: when the stored
\* record is absent or is not parseable JSON the configuration loaded is
\* the defaults (wsUrl empty, sseUrl empty, brightnessMode auto,
\* alertThresholdWatts 2000), and a field missing from a stored record
\* takes its default.
C30_LoadConfig ==
    dlast.op = "constructor" =>
        /\ storage.kind \in {"absent", "corrupt"} =>
             LoadedConfig = [wsUrl |-> "", sseUrl |-> "",
                             brightnessMode |-> "auto",
                             alertThresholdWatts |-> 2000]
        /\ storage.kind = "object" =>
             /\ "wsUrl" \notin storage.has => wsUrl = ""
             /\ "sseUrl" \notin storage.has => sseUrl = ""
             /\ "brightnessMode" \notin storage.has =>
                  brightnessMode = "auto"
             /\ "alertThresholdWatts" \notin storage.has =>
                  alertThresholdWatts = 2000

C30_Witness ==
    /\ dlast.op = "constructor"
    /\ storage.kind = "object"
    /\ storage.has = {"sseUrl", "alertThresholdWatts"}
    /\ LoadedConfig = [wsUrl |-> "", sseUrl |-> "http://remo-e:8080/events",
                       brightnessMode |-> "auto",
                       alertThresholdWatts |-> 1800]

\* the transports of the client that are connecting or open; each has the
\* open, message and close handlers connect() attached to it
LiveTransports ==
    (IF ws \in {"CONNECTING", "OPEN"} THEN 1 ELSE 0)
        + orphans["CONNECTING"] + orphans["OPEN"]

\* C31: at most one transport of the client is connecting or open with the
\* handlers of the client attached, and when the client creates a transport
\* the one it referred to before is not connecting or open any more.
C31_OneLiveTransport ==
    /\ [](LiveTransports <= 1)
    /\ [][(WsStep /\ last'.fx.created > 0) =>
            ws \notin {"CONNECTING", "OPEN"}]_vars

\* C32: at most one retry timer is pending and reconnectTimeoutId
\* identifies it, so that no retry timer is pending after stop().
C32_OneRetryTimer ==
    /\ timers <= 1
    /\ timers = 1 => reconnectTimeoutId = "pending"
    /\ last.op = "disconnect" => timers = 0

\* C33: whenever the current transport is open and its open event has been
\* handled the state is connected, and the close event of a transport the
\* client has replaced does not move the state to disconnected while the
\* current transport is connecting or open.
C33_StateMatchesTransport ==
    /\ [](ws = "OPEN" => state = "connected")
    /\ [][(WsStep /\ last'.op = "onclose" /\ last'.target = "orphan"
             /\ ws \in {"CONNECTING", "OPEN"}) =>
            state' = state]_vars

\* C35: the retry counter is between 0 and maxReconnectAttempts.
C35_CounterRange ==
    /\ 0 <= reconnectAttempts
    /\ reconnectAttempts <= maxReconnectAttempts

\* C36: the retry counter changes only by the reset to 0 of an open event
\* and by the increment of a firing retry timer; stop(), start(), the
\* endpoint setter and a visibility change leave it as it is, so start()
\* with the counter at the cap makes one connection attempt, and neither
\* that attempt when it throws nor the close of its transport arms a retry
\* timer.
C36_CounterChanges ==
    [][WsStep =>
         /\ last'.op = "onopen" => reconnectAttempts' = 0
         /\ last'.op = "timer" => reconnectAttempts' = reconnectAttempts + 1
         /\ last'.op \notin {"onopen", "timer"}
              => reconnectAttempts' = reconnectAttempts
         /\ (last'.op = "connect"
               /\ reconnectAttempts >= maxReconnectAttempts)
              => /\ last'.fx.scheduled = << >>
                 /\ timers' = timers
                 /\ (wsUrl # "" /\ ws # "OPEN")
                      => (last'.fx.created = 1) # last'.fx.threw
                 /\ last'.fx.created <= 1
         /\ (last'.op = "onclose"
               /\ reconnectAttempts >= maxReconnectAttempts)
              => /\ last'.fx.scheduled = << >>
                 /\ last'.fx.created = 0
                 /\ timers' = timers]_vars

C36_Witness ==
    /\ last.op = "connect"
    /\ last.fx.threw
    /\ last.fx.created = 0
    /\ last.fx.scheduled = << >>
    /\ reconnectAttempts = maxReconnectAttempts
    /\ shouldConnect
    /\ timers = 0

\* C37: the states the SSEClient delivers to its observers never go from
\* disconnected straight to connected, whatever open and error events
\* arrive, errors that leave the stream reconnecting by itself included.
C37_SseStateGrammar ==
    [][SseStep =>
         LET path == <<sseState>> \o sseLast'.fx.delivered
         IN  \A i \in 1..(Len(path) - 1) :
               ~(path[i] = "disconnected" /\ path[i + 1] = "connected")]_vars

\* C38: on an initialized controller updateConfig with a non-empty wsUrl
\* leaves the MessageClient desired-connected at that URL with a connection
\* attempt started, whether or not it was desired-connected before.
C38_UpdateConfigConnects ==
    [][(WsStep /\ last'.op = "updateConfig" /\ initialized
          /\ last'.target \notin {"none", ""}) =>
         /\ wsUrl' = last'.target
         /\ shouldConnect'
         /\ last'.fx.created = 1 \/ last'.fx.threw]_vars

\* C39: after updateConfig has saved the configuration the controller
\* holds, loadConfig of the stored item yields that configuration in all
\* four fields, an alertThresholdWatts of 0 included.
C39_ConfigRoundTrip ==
    dlast.op = "updateConfig" => loadConfig(storage) = LoadedConfig

\* C34: with expiry timers firing, every message that is active with a
\* duration above 0 stops being the active message at some later point,
\* whatever frames arrive after it, config frames and parseable frames that
\* are not objects included.
C34_TimedMessageEnds ==
    \A r \in 1..MaxFrames :
        (ActiveTimed /\ currentMessage.ref = r) ~> (currentMessage.ref # r)
====
